---- MODULE Spec2Model ----
(***************************************************************************)
(* A model of geofib's survey core: the COGO traverse builder and the      *)
(* angle parser of cogo.py, the duct-sharing vault tree of design.py, the  *)
(* geodesic solvers of vincenty.py and the arc items of geofib.py.         *)
(*                                                                         *)
(* Positions are points <<east, north>> of an integer grid (feet), and     *)
(* Position.displace moves a point by range * the grid step of the         *)
(* azimuth; azimuths are whole degrees.  The comments list of a Traverse   *)
(* (appended to by every call) is not modelled.                            *)
(***************************************************************************)
EXTENDS Integers, Sequences, FiniteSets, TLC

VARIABLES
    \* Traverse (cogo.py)
    points, rangeazimuths, cursor, last_azimuth, basis_adjustment, tlast,
    \* FiberManager and its Vaults (design.py)
    name_to_vault, parent, name_to_child, microducts, path_to_parent,
    splices, trunk_carries, duct_carries, phase, flast,
    \* parse_angle and parse_azimuth (cogo.py)
    elem, plast, tup, alast,
    \* the geodesic solvers (vincenty.py)
    vlast,
    \* Position objects and the Traverses that refer to them (cogo.py)
    heap, trav, hlast

tvars == <<points, rangeazimuths, cursor, last_azimuth, basis_adjustment, tlast>>
fvars == <<name_to_vault, parent, name_to_child, microducts, path_to_parent,
           splices, trunk_carries, duct_carries, phase, flast>>
pvars == <<elem, plast, tup, alast>>
gvars == <<vlast, heap, trav, hlast>>
vars == <<tvars, fvars, pvars, gvars>>

(***************************************************************************)
(* Bounds of the model.                                                    *)
(***************************************************************************)
MaxPoints == 3
MaxCoord == 1
MaxAzimuth == 360
MaxSplices == 1

\* Python's None, for the optional azimuth and the optional path geometry.
None == <<>>

Abs(n) == IF n < 0 THEN -n ELSE n

Last(s) == s[Len(s)]

RECURSIVE Reverse(_)
Reverse(s) == IF s = <<>> THEN <<>> ELSE Append(Reverse(Tail(s)), Head(s))

(***************************************************************************)
(* cogo.py: Position                                                       *)
(***************************************************************************)
\* The step of an azimuth on the grid: the sine and the cosine of the azimuth
\* (vincenty.position_from_rangebearing takes both, so only the azimuth mod
\* 360 matters), each rounded to the nearest of -1, 0 and 1.
UnitVector(azimuth) ==
    LET a == azimuth % 360
        east == IF a >= 30 /\ a <= 150 THEN 1 ELSE IF a >= 210 /\ a <= 330 THEN -1 ELSE 0
        north == IF a <= 60 \/ a >= 300 THEN 1 ELSE IF a >= 120 /\ a <= 240 THEN -1 ELSE 0
    IN <<east, north>>

\* position_from_rangebearing divides by sigma = s / (b * A), which is 0.0
\* for a zero distance: the while condition raises ZeroDivisionError.
DisplaceRaises(range_in_feet) == range_in_feet = 0

Displace(p, range_in_feet, azimuth) ==
    <<p[1] + range_in_feet * UnitVector(azimuth)[1],
      p[2] + range_in_feet * UnitVector(azimuth)[2]>>

IsPosition(e) == Len(e) = 2

(***************************************************************************)
(* cogo.py: Traverse                                                       *)
(***************************************************************************)
Origin == <<0, 0>>
Ranges == {0, 1}
Azimuths == {0, 90, 180, 270}
Deltas == {-90, 90}
BasisAdjustments == {0, 45}

Traverse == [points |-> points, rangeazimuths |-> rangeazimuths, cursor |-> cursor,
             last_azimuth |-> last_azimuth, outcome |-> "ok"]

\* The last call made, how it ended and what it returned.
TLast(op, outcome, result) == [op |-> op, outcome |-> outcome, result |-> result]

\* The bounds: the cursor stays on the grid, points has at most MaxPoints
\* elements and the tracked azimuth within MaxAzimuth degrees of north.
WithinBounds(t) ==
    /\ Abs(t.cursor[1]) <= MaxCoord
    /\ Abs(t.cursor[2]) <= MaxCoord
    /\ Len(t.points) <= MaxPoints
    /\ t.last_azimuth # None => Abs(t.last_azimuth[1]) <= MaxAzimuth

\* Mutant: thence_to that appends the point but not the edge record.
ThenceToRunNoEdge(t, range_in_feet, azimuth) ==
    LET adjusted == azimuth + basis_adjustment IN
    IF DisplaceRaises(range_in_feet)
    THEN [t EXCEPT !.outcome = "ZeroDivisionError"]
    ELSE LET moved == Displace(t.cursor, range_in_feet, adjusted) IN
         [t EXCEPT !.cursor = moved,
                   !.last_azimuth = <<adjusted>>,
                   !.points = IF t.points # <<>> THEN Append(t.points, moved) ELSE t.points]

\* Mutant: thence_to that records the point and the edge before begin as well.
ThenceToRunRecordsUnbegun(t, range_in_feet, azimuth) ==
    LET adjusted == azimuth + basis_adjustment IN
    IF DisplaceRaises(range_in_feet)
    THEN [t EXCEPT !.outcome = "ZeroDivisionError"]
    ELSE LET moved == Displace(t.cursor, range_in_feet, adjusted) IN
         [t EXCEPT !.cursor = moved,
                   !.last_azimuth = <<adjusted>>,
                   !.points = Append(t.points, moved),
                   !.rangeazimuths = Append(t.rangeazimuths, <<range_in_feet, adjusted>>)]

ThenceToRun(t, range_in_feet, azimuth) ==
    LET adjusted == azimuth + basis_adjustment IN
    IF DisplaceRaises(range_in_feet)
    THEN [t EXCEPT !.outcome = "ZeroDivisionError"]
    ELSE LET moved == Displace(t.cursor, range_in_feet, adjusted) IN
         [t EXCEPT !.cursor = moved,
                   !.last_azimuth = <<adjusted>>,
                   !.points = IF t.points # <<>> THEN Append(t.points, moved) ELSE t.points,
                   !.rangeazimuths =
                       IF t.points # <<>>
                       THEN Append(t.rangeazimuths, <<range_in_feet, adjusted>>)
                       ELSE t.rangeazimuths]

ThenceChordRun(t, range_in_feet, delta_azimuth) ==
    IF t.last_azimuth = None
    THEN [t EXCEPT !.outcome = "ParseError"]
    ELSE LET last == t.last_azimuth[1]
             after == ThenceToRun(t, range_in_feet, last + (delta_azimuth \div 2))
         IN IF after.outcome # "ok"
            THEN after
            ELSE [after EXCEPT !.last_azimuth = <<last + delta_azimuth>>]

Store(t) ==
    /\ points' = t.points
    /\ rangeazimuths' = t.rangeazimuths
    /\ cursor' = t.cursor
    /\ last_azimuth' = t.last_azimuth

authority(adjustment) ==
    /\ basis_adjustment' = adjustment
    /\ tlast' = TLast("authority", "ok", <<>>)
    /\ UNCHANGED <<points, rangeazimuths, cursor, last_azimuth, fvars, pvars, gvars>>

\* Mutant: begin that appends the cursor before it finds the traverse begun.
BeginAppendsFirst ==
    /\ IF points # <<>>
       THEN tlast' = TLast("begin", "ParseError", <<>>)
       ELSE tlast' = TLast("begin", "ok", <<>>)
    /\ points' = Append(points, cursor)
    /\ UNCHANGED <<rangeazimuths, cursor, last_azimuth, basis_adjustment, fvars, pvars, gvars>>

begin ==
    /\ IF points # <<>>
       THEN /\ tlast' = TLast("begin", "ParseError", <<>>)
            /\ UNCHANGED points
       ELSE /\ tlast' = TLast("begin", "ok", <<>>)
            /\ points' = Append(points, cursor)
    /\ UNCHANGED <<rangeazimuths, cursor, last_azimuth, basis_adjustment, fvars, pvars, gvars>>

thence_to(range_in_feet, azimuth) ==
    LET t == ThenceToRun(Traverse, range_in_feet, azimuth) IN
    /\ WithinBounds(t)
    /\ Store(t)
    /\ tlast' = TLast("thence_to", t.outcome, <<>>)
    /\ UNCHANGED <<basis_adjustment, fvars, pvars, gvars>>

thence_chord(range_in_feet, delta_azimuth) ==
    LET t == ThenceChordRun(Traverse, range_in_feet, delta_azimuth) IN
    /\ WithinBounds(t)
    /\ Store(t)
    /\ tlast' = TLast("thence_chord", t.outcome, <<>>)
    /\ UNCHANGED <<basis_adjustment, fvars, pvars, gvars>>

\* closure is the empty list [] when the traverse closes, and [closure] is
\* appended either way.
AsPolygonResult(pts) ==
    LET closure == IF pts[1] = Last(pts) THEN <<>> ELSE pts[1]
    IN pts \o <<closure>>

as_polygon ==
    /\ IF Len(points) < 3
       THEN tlast' = TLast("as_polygon", "ParseError", <<>>)
       ELSE tlast' = TLast("as_polygon", "ok", AsPolygonResult(points))
    /\ UNCHANGED <<points, rangeazimuths, cursor, last_azimuth, basis_adjustment,
                   fvars, pvars, gvars>>

\* range_bearing_to_close: the range and bearing from the last point to the
\* first, (0, 0) for two equal points (vincenty.rangebearing_from_positions).
\* The range is the longer of the two grid distances and the bearing the
\* multiple of 45 degrees of the signs of the differences.
RangeBearingTo(p, q) ==
    LET de == q[1] - p[1]
        dn == q[2] - p[2]
        r == IF Abs(de) > Abs(dn) THEN Abs(de) ELSE Abs(dn)
        b == CHOOSE az \in {0, 45, 90, 135, 180, 225, 270, 315} :
                UnitVector(az) = <<IF de > 0 THEN 1 ELSE IF de < 0 THEN -1 ELSE 0,
                                   IF dn > 0 THEN 1 ELSE IF dn < 0 THEN -1 ELSE 0>>
    IN IF p = q THEN <<0, 0>> ELSE <<r, b>>

range_bearing_to_close ==
    /\ IF Len(points) < 3
       THEN tlast' = TLast("range_bearing_to_close", "ParseError", <<>>)
       ELSE tlast' = TLast("range_bearing_to_close", "ok",
                           RangeBearingTo(Last(points), points[1]))
    /\ UNCHANGED <<points, rangeazimuths, cursor, last_azimuth, basis_adjustment,
                   fvars, pvars, gvars>>

\* abs(math.cos(alpha_diff * piD4 / 90.0)), the cosine of half the turn, in
\* thousandths, for alpha_diff = 0, 1, .. 359
CosHalf == <<
    1000, 1000, 1000, 1000, 999, 999, 999, 998, 998, 997, 996, 995, 995, 994, 993,
    991, 990, 989, 988, 986, 985, 983, 982, 980, 978, 976, 974, 972, 970, 968,
    966, 964, 961, 959, 956, 954, 951, 948, 946, 943, 940, 937, 934, 930, 927,
    924, 921, 917, 914, 910, 906, 903, 899, 895, 891, 887, 883, 879, 875, 870,
    866, 862, 857, 853, 848, 843, 839, 834, 829, 824, 819, 814, 809, 804, 799,
    793, 788, 783, 777, 772, 766, 760, 755, 749, 743, 737, 731, 725, 719, 713,
    707, 701, 695, 688, 682, 676, 669, 663, 656, 649, 643, 636, 629, 623, 616,
    609, 602, 595, 588, 581, 574, 566, 559, 552, 545, 537, 530, 522, 515, 508,
    500, 492, 485, 477, 469, 462, 454, 446, 438, 431, 423, 415, 407, 399, 391,
    383, 375, 367, 358, 350, 342, 334, 326, 317, 309, 301, 292, 284, 276, 267,
    259, 250, 242, 233, 225, 216, 208, 199, 191, 182, 174, 165, 156, 148, 139,
    131, 122, 113, 105, 96, 87, 78, 70, 61, 52, 44, 35, 26, 17, 9,
    0, 9, 17, 26, 35, 44, 52, 61, 70, 78, 87, 96, 105, 113, 122,
    131, 139, 148, 156, 165, 174, 182, 191, 199, 208, 216, 225, 233, 242, 250,
    259, 267, 276, 284, 292, 301, 309, 317, 326, 334, 342, 350, 358, 367, 375,
    383, 391, 399, 407, 415, 423, 431, 438, 446, 454, 462, 469, 477, 485, 492,
    500, 508, 515, 522, 530, 537, 545, 552, 559, 566, 574, 581, 588, 595, 602,
    609, 616, 623, 629, 636, 643, 649, 656, 663, 669, 676, 682, 688, 695, 701,
    707, 713, 719, 725, 731, 737, 743, 749, 755, 760, 766, 772, 777, 783, 788,
    793, 799, 804, 809, 814, 819, 824, 829, 834, 839, 843, 848, 853, 857, 862,
    866, 870, 875, 879, 883, 887, 891, 895, 899, 903, 906, 910, 914, 917, 921,
    924, 927, 930, 934, 937, 940, 943, 946, 948, 951, 954, 956, 959, 961, 964,
    966, 968, 970, 972, 974, 976, 978, 980, 982, 983, 985, 986, 988, 989, 990,
    991, 993, 994, 995, 995, 996, 997, 998, 998, 999, 999, 999, 1000, 1000, 1000>>

\* abs(feet / math.cos(alpha_diff * piD4 / 90.0)), to the nearest foot
MiterRadius(feet, alpha_diff) ==
    LET c == CosHalf[alpha_diff + 1] IN (2 * 1000 * Abs(feet) + c) \div (2 * c)

\* the local displace(point, range_f, bearing) of as_centerline
CenterlineDisplace(point, range_f, bearing) ==
    IF range_f = 0 THEN point ELSE Displace(point, range_f, bearing % 360)

AlphaDiff(azimuths, k) == (azimuths[k + 1] - azimuths[k]) % 360

\* Mutant: the band with its ends.
TooAcuteInclusive(alpha_diff) == alpha_diff >= 175 /\ alpha_diff <= 185

TooAcute(alpha_diff) == alpha_diff > 175 /\ alpha_diff < 185

\* alpha_k + alpha_diff / 2 (+ 180 on a left turn), to the whole degree below
Bisector(azimuths, k) ==
    LET d == AlphaDiff(azimuths, k)
        alpha == (2 * azimuths[k] + d) \div 2
    IN IF d < 180 THEN alpha ELSE alpha + 180

\* what add() appends to right for the i-th point
RightOffset(pts, azimuths, i, right_in_feet) ==
    IF i = 1 THEN CenterlineDisplace(pts[1], right_in_feet, azimuths[1] + 90)
    ELSE IF i = Len(pts)
    THEN CenterlineDisplace(pts[i], right_in_feet, Last(azimuths) + 90)
    ELSE LET d == AlphaDiff(azimuths, i - 1)
             r == IF d < 180 THEN MiterRadius(right_in_feet, d) ELSE right_in_feet
         IN CenterlineDisplace(pts[i], r, Bisector(azimuths, i - 1) + 90)

\* what add() appends to left_rev for the i-th point
LeftOffset(pts, azimuths, i, left_in_feet) ==
    IF i = 1 THEN CenterlineDisplace(pts[1], left_in_feet, azimuths[1] - 90)
    ELSE IF i = Len(pts)
    THEN CenterlineDisplace(pts[i], left_in_feet, Last(azimuths) - 90)
    ELSE LET d == AlphaDiff(azimuths, i - 1)
             r == IF d < 180 THEN left_in_feet ELSE MiterRadius(left_in_feet, d)
         IN CenterlineDisplace(pts[i], r, Bisector(azimuths, i - 1) - 90)

\* Mutant: left_rev returned as built, without left_rev.reverse().
AsCenterlineResultUnreversed(pts, edges, right_in_feet, left_in_feet) ==
    LET azimuths == [k \in 1..Len(edges) |-> edges[k][2]]
    IN [i \in 1..Len(pts) |-> RightOffset(pts, azimuths, i, right_in_feet)]
       \o [i \in 1..Len(pts) |-> LeftOffset(pts, azimuths, i, left_in_feet)]

AsCenterlineResult(pts, edges, right_in_feet, left_in_feet) ==
    LET azimuths == [k \in 1..Len(edges) |-> edges[k][2]]
    IN [i \in 1..Len(pts) |-> RightOffset(pts, azimuths, i, right_in_feet)]
       \o Reverse([i \in 1..Len(pts) |-> LeftOffset(pts, azimuths, i, left_in_feet)])

Offsets == {0, 1}

\* The last call made, with the offsets it was given.
TLastCenterline(right_in_feet, left_in_feet, outcome, result) ==
    [op |-> "as_centerline", args |-> <<right_in_feet, left_in_feet>>,
     outcome |-> outcome, result |-> result]

as_centerline(right_in_feet, left_in_feet) ==
    /\ IF Len(points) < 2
       THEN tlast' = TLastCenterline(right_in_feet, left_in_feet, "ParseError", <<>>)
       ELSE IF \E k \in 1..(Len(rangeazimuths) - 1) :
                  TooAcute(AlphaDiff([i \in 1..Len(rangeazimuths) |-> rangeazimuths[i][2]], k))
       THEN tlast' = TLastCenterline(right_in_feet, left_in_feet, "ParseError", <<>>)
       ELSE tlast' = TLastCenterline(right_in_feet, left_in_feet, "ok",
                                     AsCenterlineResult(points, rangeazimuths,
                                                        right_in_feet, left_in_feet))
    /\ UNCHANGED <<points, rangeazimuths, cursor, last_azimuth, basis_adjustment,
                   fvars, pvars, gvars>>

TraverseInit ==
    /\ points = <<>>
    /\ rangeazimuths = <<>>
    /\ cursor = Origin
    /\ last_azimuth = None
    /\ basis_adjustment = 0
    /\ tlast = TLast("init", "ok", <<>>)

TraverseNext ==
    \/ \E adjustment \in BasisAdjustments : authority(adjustment)
    \/ begin
    \/ \E r \in Ranges, azimuth \in Azimuths : thence_to(r, azimuth)
    \/ \E r \in Ranges, delta \in Deltas : thence_chord(r, delta)
    \/ as_polygon

\* The calls that build a traverse and those that read it as a closure, a
\* polygon and a centerline, with legs whose azimuths differ by the ends of
\* the band as_centerline rejects and by values on either side.
CenterlineAzimuths == {0, 90, 175, 176, 184, 185}

CenterlineNext ==
    \/ begin
    \/ \E azimuth \in CenterlineAzimuths : thence_to(1, azimuth)
    \/ \E delta \in Deltas : thence_chord(1, delta)
    \/ as_polygon
    \/ range_bearing_to_close
    \/ \E right_in_feet \in Offsets, left_in_feet \in Offsets :
          as_centerline(right_in_feet, left_in_feet)

(***************************************************************************)
(* design.py: get_vincenty_length                                          *)
(*                                                                         *)
(* Coordinates are tuples (x, y) or (x, y, z) of whole feet, all of them on *)
(* the line y = 0, and the inverse geodesic range between two of them,     *)
(* which reads x and y only, is the difference of their x.                 *)
(***************************************************************************)
RangeInFeet(pos1, pos2) == Abs(pos2[1] - pos1[1])

RECURSIVE SegmentTotal(_)
SegmentTotal(coords) ==
    IF Len(coords) < 2 THEN 0
    ELSE RangeInFeet(coords[1], coords[2]) + SegmentTotal(Tail(coords))

\* math.ceil(total / 10) for total >= 0
CeilTenth(total) == (total + 9) \div 10

get_vincenty_length(coords) == 10 * CeilTenth(SegmentTotal(coords))

(***************************************************************************)
(* design.py: Vault and FiberManager                                       *)
(***************************************************************************)
VaultNames == {"A", "B", "C"}
NoCoords == "X"
Names == VaultNames \cup {NoCoords}
Demarcs == {"d1"}
NoDemarc == "dX"
NoVault == "None"
Microducts == {2}

\* name_to_coords: the vaults' and the demarcs' survey coordinates
VaultCoord(name) ==
    CASE name = "A" -> <<100, 0>> [] name = "B" -> <<200, 0>> [] name = "C" -> <<300, 0>>
DemarcCoord(name) == CASE name = "d1" -> <<0, 0>>

\* drop alignments: two of (x, y) coordinates, one of (x, y, z)
DropAlignments == {<<>>, <<<<12, 0>>, <<18, 0>>>>, <<<<18, 0>>, <<12, 0>>>>,
                   <<<<5, 0, 7>>, <<45, 0, 7>>>>}

\* The calls of add_fiber_drop tried: a drop without alignment between every
\* two vault names that have coordinates, a drop along every alignment from
\* C to B, and one call for each name that may be unknown.
DropCalls ==
    (Demarcs \X {<<>>} \X VaultNames \X VaultNames)
    \cup (Demarcs \X (DropAlignments \ {<<>>}) \X {"C"} \X {"B"})
    \cup {<<NoDemarc, <<>>, "A", "A">>, <<"d1", <<>>, NoCoords, "A">>,
          <<"d1", <<>>, "A", NoCoords>>}

\* The vault lists tried: the empty list, every list of one or two names that
\* have coordinates, and the lists that end in the name that has none.
VaultLists ==
    {<<>>, <<NoCoords>>}
    \cup {<<a>> : a \in VaultNames}
    \cup {<<a, b>> : a \in VaultNames, b \in Names}

Tree == [vaults |-> name_to_vault, parent |-> parent, name_to_child |-> name_to_child,
         microducts |-> microducts, path_to_parent |-> path_to_parent, outcome |-> "ok"]

\* The part of the alignment between the vault's and its parent's projections.
PathToParent(name, par) == <<VaultCoord(name), VaultCoord(par)>>

\* Mutant: set_parent without the check for a parent already set.
SetParentOverwrites(st, name, par, m) ==
    [st EXCEPT !.parent[name] = par,
               !.microducts[name] = m,
               !.path_to_parent[name] = PathToParent(name, par)]

\* Vault.set_parent
SetParent(st, name, par, m) ==
    IF st.parent[name] # NoVault
    THEN [st EXCEPT !.outcome = "GeofibDesignError"]
    ELSE [st EXCEPT !.parent[name] = par,
                    !.microducts[name] = m,
                    !.path_to_parent[name] = PathToParent(name, par)]

AddChild(st, par, name) ==
    IF name \in st.name_to_child[par]
    THEN [st EXCEPT !.outcome = "GeofibDesignError"]
    ELSE [st EXCEPT !.name_to_child[par] = @ \cup {name}]

\* FiberManager._get_vault: look the vault up or create it, then link it.
GetVault(st, name, par, m) ==
    IF name \notin st.vaults /\ name \notin VaultNames
    THEN [st EXCEPT !.outcome = "KeyError"]
    ELSE LET made == [st EXCEPT !.vaults = @ \cup {name}] IN
         IF par = NoVault THEN made
         ELSE LET linked == SetParent(made, name, par, m) IN
              IF linked.outcome # "ok" THEN linked
              ELSE AddChild(linked, par, name)

\* The loop of FiberManager.set_alignment; an exception ends it where it is.
RECURSIVE SetAlignmentLoop(_, _, _, _)
SetAlignmentLoop(st, par, vaultlist, m) ==
    IF vaultlist = <<>> THEN st
    ELSE LET got == GetVault(st, Head(vaultlist), par, m) IN
         IF got.outcome # "ok" THEN got
         ELSE SetAlignmentLoop(got, Head(vaultlist), Tail(vaultlist), m)

\* Mutant: the loop never threads the previous vault through as the parent.
RECURSIVE SetAlignmentUnthreaded(_, _, _)
SetAlignmentUnthreaded(st, vaultlist, m) ==
    IF vaultlist = <<>> THEN st
    ELSE LET got == GetVault(st, Head(vaultlist), NoVault, m) IN
         IF got.outcome # "ok" THEN got
         ELSE SetAlignmentUnthreaded(got, Tail(vaultlist), m)

SetAlignmentRun(st, vaultlist, m) == SetAlignmentLoop(st, NoVault, vaultlist, m)

\* The last call made, its arguments, how it ended and what it returned.
FLast(op, args, outcome, result) ==
    [op |-> op, args |-> args, outcome |-> outcome, result |-> result]

\* A call that never returns leaves the program inside it.
Running == flast.outcome # "hang"

set_alignment(m, vaultlist) ==
    LET st == SetAlignmentRun(Tree, vaultlist, m) IN
    /\ Running
    /\ name_to_vault' = st.vaults
    /\ parent' = st.parent
    /\ name_to_child' = st.name_to_child
    /\ microducts' = st.microducts
    /\ path_to_parent' = st.path_to_parent
    /\ phase' = IF phase = "align" THEN "align" ELSE "mixed"
    /\ flast' = FLast("set_alignment", <<m, vaultlist>>, st.outcome, <<>>)
    /\ UNCHANGED <<splices, trunk_carries, duct_carries, tvars, pvars, gvars>>

Parentless == {v \in name_to_vault : parent[v] = NoVault}

\* assert head_end raises AssertionError, or is compiled out (python -O) and
\* None is returned.
get_head_end ==
    /\ Running
    /\ \/ /\ Cardinality(Parentless) = 1
          /\ flast' = FLast("get_head_end", <<>>, "ok", <<CHOOSE v \in Parentless : TRUE>>)
       \/ /\ Cardinality(Parentless) > 1
          /\ flast' = FLast("get_head_end", <<>>, "GeofibDesignError", <<>>)
       \/ /\ Cardinality(Parentless) = 0
          /\ \E outcome \in {"AssertionError", "ok"} :
                flast' = FLast("get_head_end", <<>>, outcome, <<>>)
    /\ UNCHANGED <<name_to_vault, parent, name_to_child, microducts, path_to_parent,
                   splices, trunk_carries, duct_carries, phase, tvars, pvars, gvars>>

\* The vaults met by following parent links from v, v included.
RECURSIVE Upstream(_, _)
Upstream(v, seen) ==
    IF v = NoVault \/ v \in seen THEN seen
    ELSE Upstream(parent[v], seen \cup {v})

RECURSIVE ReachesRoot(_, _)
ReachesRoot(v, seen) ==
    IF v = NoVault THEN TRUE
    ELSE IF v \in seen THEN FALSE
    ELSE ReachesRoot(parent[v], seen \cup {v})

\* Vault.ancestors on a parent chain that ends: the vaults from v upwards,
\* stopping before the first one named in stop_set.
RECURSIVE Ancestors(_, _)
Ancestors(v, stop_set) ==
    IF v \in stop_set THEN <<>>
    ELSE <<v>> \o (IF parent[v] # NoVault THEN Ancestors(parent[v], stop_set) ELSE <<>>)

Range(s) == {s[i] : i \in 1..Len(s)}

\* Mutant: set_splicepoint_for that marks the splice vault alone.
TrunkWalkSelfOnly(splicevaultname) == {splicevaultname}

\* The vaults the while loop of set_splicepoint_for visits.
TrunkWalk(splicevaultname) == Upstream(splicevaultname, {})

\* Mutant: only parentless vaults stop the two walks.
CommonRootsOnly(bbvaultname, splicevaultname) ==
    {v \in Range(Ancestors(bbvaultname, {})) \cap Range(Ancestors(splicevaultname, {})) :
        parent[v] = NoVault}

\* bba_names.intersection(sva_names)
Common(bbvaultname, splicevaultname) ==
    Range(Ancestors(bbvaultname, {})) \cap Range(Ancestors(splicevaultname, {}))

\* The drop alignment, closer end first.
Oriented(demarc_coord, alignment) ==
    LET first == get_vincenty_length(<<demarc_coord, alignment[1]>>)
        last == get_vincenty_length(<<demarc_coord, Last(alignment)>>)
    IN IF first < last THEN alignment ELSE Reverse(alignment)

\* for_each over an ancestor walk: the vaults marked in duct_carries, the
\* coordinates collected, and whether a vault without path_to_parent was met
\* (None.coords raises AttributeError, after that vault was marked).
RECURSIVE WalkCoords(_)
WalkCoords(walk) ==
    IF walk = <<>> \/ path_to_parent[Head(walk)] = None THEN <<>>
    ELSE path_to_parent[Head(walk)] \o WalkCoords(Tail(walk))

WalkRaises(walk) == \E i \in 1..Len(walk) : path_to_parent[walk[i]] = None

\* (x, y, z[0] if z else 0) for (x, y, *z), the form of every coordinate
\* add_fiber_drop returns
XYZ(coord) == <<coord[1], coord[2], IF Len(coord) > 2 THEN coord[3] ELSE 0>>

\* Mutant: the splice-side coordinates chained as collected, not reversed.
DropPathUnreversed(coords, bbcoords, revme) ==
    [i \in 1..(Len(coords) + Len(bbcoords) + Len(revme)) |->
        XYZ((coords \o bbcoords \o revme)[i])]

\* itertools.chain(coords, reversed(revme)), coords already extended by the
\* walk from the bb vault
DropPath(coords, bbcoords, revme) ==
    [i \in 1..(Len(coords) + Len(bbcoords) + Len(revme)) |->
        XYZ((coords \o bbcoords \o Reverse(revme))[i])]

Mark(carries, vs, demarcname) ==
    [v \in VaultNames |-> IF v \in vs THEN carries[v] \cup {demarcname} ELSE carries[v]]

add_fiber_drop(demarcname, alignment, bbvaultname, splicevaultname) ==
    LET coords == <<DemarcCoord(demarcname)>> \o
                  (IF alignment # <<>> THEN Oriented(DemarcCoord(demarcname), alignment)
                   ELSE <<>>)
        done(outcome, result) ==
            flast' = FLast("add_fiber_drop",
                           <<demarcname, alignment, bbvaultname, splicevaultname>>,
                           outcome, result)
        spliced == [splices EXCEPT ![splicevaultname] = @ \cup {demarcname}]
        trunk == Mark(trunk_carries, TrunkWalk(splicevaultname), demarcname)
        common == Common(bbvaultname, splicevaultname)
        bbwalk == Ancestors(bbvaultname, common)
        svwalk == Ancestors(splicevaultname, common)
    IN
    /\ Running
    /\ phase' = IF phase = "align" THEN "drop" ELSE phase
    /\ UNCHANGED <<name_to_vault, parent, name_to_child, microducts, path_to_parent,
                   tvars, pvars, gvars>>
    /\ IF \/ demarcname \notin Demarcs
          \/ bbvaultname \notin name_to_vault
          \/ splicevaultname \notin name_to_vault
       THEN /\ done("KeyError", <<>>)
            /\ UNCHANGED <<splices, trunk_carries, duct_carries>>
       ELSE /\ Cardinality({v \in VaultNames : spliced[v] # {}}) <= MaxSplices
            /\ splices' = spliced
            /\ trunk_carries' = trunk
            /\ IF ~ReachesRoot(splicevaultname, {})
               THEN \* the while loop of set_splicepoint_for never ends
                    /\ done("hang", <<>>)
                    /\ UNCHANGED duct_carries
               ELSE IF ~ReachesRoot(bbvaultname, {})
               THEN \* bbvault.ancestors() recurses without end
                    /\ done("RecursionError", <<>>)
                    /\ UNCHANGED duct_carries
               ELSE IF WalkRaises(bbwalk)
               THEN /\ done("AttributeError", <<>>)
                    /\ duct_carries' = Mark(duct_carries, Range(bbwalk), demarcname)
               ELSE IF WalkRaises(svwalk)
               THEN /\ done("AttributeError", <<>>)
                    /\ duct_carries' =
                           Mark(duct_carries, Range(bbwalk) \cup Range(svwalk), demarcname)
               ELSE /\ done("ok", DropPath(coords, WalkCoords(bbwalk), WalkCoords(svwalk)))
                    /\ duct_carries' =
                           Mark(duct_carries, Range(bbwalk) \cup Range(svwalk), demarcname)

FiberInit ==
    /\ name_to_vault = {}
    /\ parent = [v \in VaultNames |-> NoVault]
    /\ name_to_child = [v \in VaultNames |-> {}]
    /\ microducts = [v \in VaultNames |-> 0]
    /\ path_to_parent = [v \in VaultNames |-> None]
    /\ splices = [v \in VaultNames |-> {}]
    /\ trunk_carries = [v \in VaultNames |-> {}]
    /\ duct_carries = [v \in VaultNames |-> {}]
    /\ phase = "align"
    /\ flast = FLast("init", <<>>, "ok", <<>>)

FiberNext ==
    \/ \E m \in Microducts, vaultlist \in VaultLists : set_alignment(m, vaultlist)
    \/ get_head_end
    \/ \E call \in DropCalls : add_fiber_drop(call[1], call[2], call[3], call[4])


(***************************************************************************)
(* cogo.py: parse_angle                                                    *)
(*                                                                         *)
(* A token is a string, a sequence of characters.  Angles are whole        *)
(* seconds of arc (3600 to the degree), so that degrees + minutes/60 +     *)
(* seconds/3600 is exact.                                                  *)
(***************************************************************************)
SecondsPerDegree == 3600

DigitChars == {"0", "1", "2", "3", "4", "5", "6", "7", "8", "9"}

DigitValue(c) ==
    CASE c = "0" -> 0 [] c = "1" -> 1 [] c = "2" -> 2 [] c = "3" -> 3 [] c = "4" -> 4
      [] c = "5" -> 5 [] c = "6" -> 6 [] c = "7" -> 7 [] c = "8" -> 8 [] c = "9" -> 9

AllDigits(s) == \A i \in 1..Len(s) : s[i] \in DigitChars

RECURSIVE Decimal(_)
Decimal(s) == IF s = <<>> THEN 0 ELSE 10 * Decimal(SubSeq(s, 1, Len(s) - 1)) + DigitValue(Last(s))

\* str.strip(), which float() and int() apply to their argument
RECURSIVE LStrip(_)
LStrip(s) == IF s # <<>> /\ Head(s) = " " THEN LStrip(Tail(s)) ELSE s

Strip(s) == Reverse(LStrip(Reverse(LStrip(s))))

Unsigned(s) == IF s # <<>> /\ Head(s) \in {"+", "-"} THEN Tail(s) ELSE s

Sign(s) == IF s # <<>> /\ Head(s) = "-" THEN -1 ELSE 1

DotAt(s) == {i \in 1..Len(s) : s[i] = "."}

IntPart(s) == IF DotAt(s) = {} THEN s ELSE SubSeq(s, 1, (CHOOSE i \in DotAt(s) : TRUE) - 1)

FracPart(s) ==
    IF DotAt(s) = {} THEN <<>> ELSE SubSeq(s, (CHOOSE i \in DotAt(s) : TRUE) + 1, Len(s))

IsNaN(s) == Unsigned(Strip(s)) = <<"n", "a", "n">>

\* float(elem) accepts a signed decimal numeral (at most two fraction
\* digits here) or nan, and raises ValueError otherwise.
IsFloat(s) ==
    LET body == Unsigned(Strip(s)) IN
    \/ IsNaN(s)
    \/ /\ Cardinality(DotAt(body)) <= 1
       /\ AllDigits(IntPart(body))
       /\ AllDigits(FracPart(body))
       /\ Len(IntPart(body)) + Len(FracPart(body)) > 0
       /\ Len(FracPart(body)) <= 2

\* the value of float(elem), in seconds of arc
FloatSeconds(s) ==
    LET body == Unsigned(Strip(s))
        frac == FracPart(body)
    IN Sign(Strip(s)) *
       (Decimal(IntPart(body)) * SecondsPerDegree
        + (IF Len(frac) >= 1 THEN DigitValue(frac[1]) * 360 ELSE 0)
        + (IF Len(frac) >= 2 THEN DigitValue(frac[2]) * 36 ELSE 0))

\* int(field) accepts a signed run of digits, and raises ValueError otherwise.
IsInt(s) == Unsigned(Strip(s)) # <<>> /\ AllDigits(Unsigned(Strip(s)))

IntValue(s) == Sign(Strip(s)) * Decimal(Unsigned(Strip(s)))

PLast(outcome, nan, value) == [outcome |-> outcome, nan |-> nan, value |-> value]

ParseAngleDMS(e) ==
    IF Len(e) # 8 \/ e[3] # " " \/ e[6] # " "
    THEN PLast("ValueError", FALSE, 0)
    ELSE IF ~IsInt(SubSeq(e, 1, 2)) \/ ~IsInt(SubSeq(e, 4, 5)) \/ ~IsInt(SubSeq(e, 7, 8))
    THEN PLast("ValueError", FALSE, 0)
    ELSE LET degrees == IntValue(SubSeq(e, 1, 2))
             minutes == IntValue(SubSeq(e, 4, 5))
             seconds == IntValue(SubSeq(e, 7, 8))
         IN IF \/ degrees < 0 \/ minutes < 0 \/ seconds < 0
               \/ degrees > 90 \/ minutes > 59 \/ seconds > 59
            THEN PLast("ValueError", FALSE, 0)
            ELSE PLast("ok", FALSE, degrees * SecondsPerDegree + minutes * 60 + seconds)

\* Every comparison with nan is false, so nan passes the range check.
ParseAngle(e) ==
    IF IsFloat(e)
    THEN IF IsNaN(e) THEN PLast("ok", TRUE, 0)
         ELSE IF FloatSeconds(e) < 0 \/ FloatSeconds(e) > 90 * SecondsPerDegree
         THEN PLast("ParseError", FALSE, 0)
         ELSE PLast("ok", FALSE, FloatSeconds(e))
    ELSE ParseAngleDMS(e)

parse_angle ==
    /\ plast' = ParseAngle(elem)
    /\ UNCHANGED <<elem, tup, alast, tvars, fvars, gvars>>

Chars(a, b) == <<a, b>>

Fields == {Chars("0", "0"), Chars("3", "0"), Chars("5", "9"), Chars("6", "0"),
           Chars("9", "0"), Chars("9", "1"), Chars("-", "5")}

Separators == {" ", ":"}

DMSTokens == {d \o <<s1>> \o m \o <<s2>> \o sec :
                 d \in Fields, m \in Fields, sec \in Fields,
                 s1 \in Separators, s2 \in Separators}

OtherTokens == {<<"0">>, <<"4", "5">>, <<"9", "0">>, <<"9", "1">>, <<"-", "2", "6">>,
                <<"4", "5", ".", "5">>, <<"9", "0", ".", "5">>, <<"2", "0", ".", "4", "5">>,
                <<"n", "a", "n">>, <<>>, <<"N">>,
                <<"4", "5", " ", "3", "0", " ", "0">>,
                <<"4", "5", " ", "3", "0", " ", "0", "0", "0">>,
                <<" ", "4", "5", ".", "5", " ", " ", " ">>}

Tokens == DMSTokens \cup OtherTokens

NotParsed == PLast("none", FALSE, 0)

ParseInit ==
    /\ elem \in Tokens
    /\ plast = NotParsed
    /\ tup = <<>>
    /\ alast = NotParsed

(***************************************************************************)
(* cogo.py: parse_azimuth                                                  *)
(*                                                                         *)
(* A tuple is <<NS, token, EW, ...>>; NS and EW are strings.               *)
(***************************************************************************)
\* str.upper() on the direction letters tried
Upper(c) ==
    CASE c = "n" -> "N" [] c = "s" -> "S" [] c = "e" -> "E" [] c = "w" -> "W"
      [] OTHER -> c

FullCircle == 360 * SecondsPerDegree

HalfCircle == 180 * SecondsPerDegree

\* the arithmetic of the last four lines; nan stays nan
QuadrantSouthEastAdds(north, east, angle) ==
    IF north THEN (IF east THEN angle ELSE FullCircle - angle)
    ELSE HalfCircle + angle

Quadrant(north, east, angle) ==
    IF north THEN (IF east THEN angle ELSE FullCircle - angle)
    ELSE (IF east THEN HalfCircle - angle ELSE HalfCircle + angle)

ParseAzimuth(t) ==
    IF Len(t) < 3 THEN PLast("ParseError", FALSE, 0)
    ELSE LET ns == Upper(t[1])
             north == ns = "N"
             ew == Upper(t[3])
             east == ew = "E"
         IN IF ns # "S" /\ ~north THEN PLast("ParseError", FALSE, 0)
            ELSE IF ew # "W" /\ ~east THEN PLast("ParseError", FALSE, 0)
            ELSE LET angle == ParseAngle(t[2]) IN
                 IF angle.outcome \in {"ValueError", "ParseError"}
                 THEN PLast("ParseError", FALSE, 0)
                 ELSE IF angle.nan THEN PLast("ok", TRUE, 0)
                 ELSE PLast("ok", FALSE, Quadrant(north, east, angle.value))

parse_azimuth ==
    /\ alast' = ParseAzimuth(tup)
    /\ UNCHANGED <<tup, elem, plast, tvars, fvars, gvars>>

Directions == {"N", "S", "E", "W", "n", "s", "e", "w", "X", ""}

AzimuthTokens ==
    (OtherTokens \ {<<"n", "a", "n">>})
    \cup {d \o <<" ">> \o m \o <<" ">> \o sec :
            d \in {Chars("0", "0"), Chars("3", "0"), Chars("9", "0"), Chars("9", "1")},
            m \in {Chars("0", "0"), Chars("1", "0"), Chars("6", "0")},
            sec \in {Chars("0", "0"), Chars("1", "0"), Chars("-", "5")}}

\* what may follow the third element: a distance, and a comment
Trailers == {<<>>, <<100>>, <<100, "to an iron pin">>}

Tuples ==
    {<<ns, token, ew>> \o rest :
        ns \in Directions, token \in AzimuthTokens, ew \in Directions, rest \in Trailers}
    \cup {<<>>, <<"N">>, <<"N", <<"4", "5">>>>, <<"S", <<"3", "0", " ", "1", "0", " ", "1", "0">>>>}

AzimuthInit ==
    /\ tup \in Tuples
    /\ alast = NotParsed

ParseIdle ==
    /\ elem = <<>>
    /\ plast = NotParsed
    /\ tup = <<>>
    /\ alast = NotParsed

(***************************************************************************)
(* vincenty.py: the direct and the inverse geodesic solver                 *)
(*                                                                         *)
(* Latitudes and longitudes are whole multiples of 1e-9 degree, distances  *)
(* whole multiples of the arc of 1e-9 degree, and azimuths whole degrees.  *)
(* A direction is known by the signs of its east and north parts, as on    *)
(* the grid of the Traverse.                                               *)
(***************************************************************************)
\* 1e-8 degree
Tolerance == 10

\* last_lembda before the first pass, "an impossible value", and the value
\* the while condition compares it with
LastLembdaStart == -4000000

LastLembdaGuard == -3000000

Sgn(n) == IF n > 0 THEN 1 ELSE IF n < 0 THEN -1 ELSE 0

\* math.atan2(east, north) in degrees: from -180 to 180, and 180 itself for
\* due south (east is never the negative zero)
Atan2Degrees(east, north) ==
    CASE Sgn(east) = 0 /\ Sgn(north) >= 0 -> 0
      [] Sgn(east) = 1 /\ Sgn(north) = 1 -> 45
      [] Sgn(east) = 1 /\ Sgn(north) = 0 -> 90
      [] Sgn(east) = 1 /\ Sgn(north) = -1 -> 135
      [] Sgn(east) = 0 /\ Sgn(north) = -1 -> 180
      [] Sgn(east) = -1 /\ Sgn(north) = -1 -> -135
      [] Sgn(east) = -1 /\ Sgn(north) = 0 -> -90
      [] Sgn(east) = -1 /\ Sgn(north) = 1 -> -45

\* the two ifs that follow every azimuth: one turn added to a negative
\* angle, then one turn taken from an angle above two_pi
Normalize(alpha) ==
    LET raised == IF alpha < 0 THEN alpha + 360 ELSE alpha
    IN IF raised > 360 THEN raised - 360 ELSE raised

\* The last solver call made, its arguments, how it ended, whether the
\* iteration was entered and what was returned.
VLast(op, args, outcome, entered, result) ==
    [op |-> op, args |-> args, outcome |-> outcome, entered |-> entered,
     result |-> result]

PositionFromRangebearing(latitude1, longitude1, alpha1To2, s) ==
    IF DisplaceRaises(s)
    THEN VLast("position_from_rangebearing", <<latitude1, longitude1, alpha1To2, s>>,
               "ZeroDivisionError", FALSE, <<>>)
    ELSE LET step == UnitVector(Normalize(alpha1To2))
             alpha21 == Normalize(Atan2Degrees(step[1], step[2]) + 180)
         IN VLast("position_from_rangebearing", <<latitude1, longitude1, alpha1To2, s>>,
                  "ok", TRUE,
                  <<latitude1 + s * step[2], longitude1 + s * step[1], alpha21>>)

\* Mutant: the degenerate case with its ends.
DegenerateInclusive(latitude1, longitude1, latitude2, longitude2) ==
    Abs(latitude2 - latitude1) <= Tolerance /\ Abs(longitude2 - longitude1) <= Tolerance

Degenerate(latitude1, longitude1, latitude2, longitude2) ==
    Abs(latitude2 - latitude1) < Tolerance /\ Abs(longitude2 - longitude1) < Tolerance

\* the while condition at its first test, last_lembda still the impossible
\* value
EntersIteration(lembda) == LastLembdaStart < LastLembdaGuard \/ lembda # 0

RangebearingFromPositions(latitude1, longitude1, latitude2, longitude2) ==
    IF Degenerate(latitude1, longitude1, latitude2, longitude2)
    THEN VLast("rangebearing_from_positions",
               <<latitude1, longitude1, latitude2, longitude2>>, "ok", FALSE, <<0, 0, 0>>)
    ELSE LET east == longitude2 - longitude1
             north == latitude2 - latitude1
             s == IF Abs(east) > Abs(north) THEN Abs(east) ELSE Abs(north)
             alpha1Tp2 == Normalize(Atan2Degrees(east, north))
             alpha21 == Normalize(Atan2Degrees(east, north) + 180)
         IN VLast("rangebearing_from_positions",
                  <<latitude1, longitude1, latitude2, longitude2>>, "ok",
                  EntersIteration(east), <<s, alpha1Tp2, alpha21>>)

position_from_rangebearing(latitude1, longitude1, alpha1To2, s) ==
    /\ vlast' = PositionFromRangebearing(latitude1, longitude1, alpha1To2, s)
    /\ UNCHANGED <<heap, trav, hlast, tvars, fvars, pvars>>

rangebearing_from_positions(latitude1, longitude1, latitude2, longitude2) ==
    /\ vlast' = RangebearingFromPositions(latitude1, longitude1, latitude2, longitude2)
    /\ UNCHANGED <<heap, trav, hlast, tvars, fvars, pvars>>

\* The points tried: differences of either sign on both sides of 1e-8 degree.
FromPoints == {<<0, 0>>, <<5, -5>>, <<-1000, 9>>}

Coordinates == {-1000, -10, -9, 0, 9, 10, 1000}

SolverAzimuths == {-400, -90, 0, 45, 90, 135, 180, 225, 270, 315, 360, 720}

Distances == {0, 1, 1000}

VincentyInit == vlast = VLast("init", <<>>, "ok", FALSE, <<>>)

VincentyNext ==
    \/ \E p \in FromPoints, alpha1To2 \in SolverAzimuths, s \in Distances :
          position_from_rangebearing(p[1], p[2], alpha1To2, s)
    \/ \E p \in FromPoints, latitude2 \in Coordinates, longitude2 \in Coordinates :
          rangebearing_from_positions(p[1], p[2], latitude2, longitude2)

(***************************************************************************)
(* cogo.py: Position objects and the Traverses that refer to them          *)
(*                                                                         *)
(* heap[o] is the value of the Position object o; a Traverse holds its     *)
(* cursor and its points as objects.  Objects 1 and 2 are Positions the    *)
(* caller made, and initial_position is the one the caller passed to the   *)
(* constructor.  An element returned to the caller is the object it is     *)
(* (0 for an object made by the call) with its value.                      *)
(***************************************************************************)
Traverses == {1, 2}

\* Traverse.__init__
NewTraverse(initial_position) ==
    [initial_position |-> initial_position, cursor |-> initial_position,
     points |-> <<>>, rangeazimuths |-> <<>>, last_azimuth |-> None,
     basis_adjustment |-> 0]

\* Position.copy: the heap with one more object, the last
PositionCopy(h, o) == Append(h, h[o])

\* Position.displace assigns the object's own latitude and longitude
PositionDisplace(h, o, range_in_feet, azimuth) ==
    [h EXCEPT ![o] = Displace(h[o], range_in_feet, azimuth)]

Fresh(value) == [object |-> 0, value |-> value]

HLast(op, i, args, outcome, result) ==
    [op |-> op, traverse |-> i, args |-> args, outcome |-> outcome, result |-> result]

PointValues(h, t) == [k \in 1..Len(t.points) |-> h[t.points[k]]]

\* The bounds: every cursor stays on the grid, the Traverses have at most
\* MaxPoints points between them and the tracked azimuths stay within
\* MaxAzimuth degrees of north.
HeapWithinBounds(h, tr) ==
    /\ Len(h) <= 2 + MaxPoints
    /\ \A i \in Traverses :
          /\ Abs(h[tr[i].cursor][1]) <= MaxCoord
          /\ Abs(h[tr[i].cursor][2]) <= MaxCoord
          /\ tr[i].last_azimuth # None => Abs(tr[i].last_azimuth[1]) <= MaxAzimuth

Traverse_begin(i) ==
    /\ IF trav[i].points # <<>>
       THEN /\ hlast' = HLast("begin", i, <<>>, "ParseError", <<>>)
            /\ UNCHANGED <<heap, trav>>
       ELSE /\ hlast' = HLast("begin", i, <<>>, "ok", <<>>)
            /\ heap' = PositionCopy(heap, trav[i].cursor)
            /\ trav' = [trav EXCEPT ![i].points = Append(@, Len(heap) + 1)]
            /\ HeapWithinBounds(heap', trav')
    /\ UNCHANGED <<vlast, tvars, fvars, pvars>>

\* Traverse.thence_to on the heap h: the heap and the Traverse it leaves
HeapThenceTo(h, t, range_in_feet, azimuth) ==
    LET adjusted == azimuth + t.basis_adjustment IN
    IF DisplaceRaises(range_in_feet)
    THEN [heap |-> h, t |-> t, outcome |-> "ZeroDivisionError"]
    ELSE LET moved == PositionDisplace(h, t.cursor, range_in_feet, adjusted)
             turned == [t EXCEPT !.last_azimuth = <<adjusted>>]
         IN IF t.points # <<>>
            THEN [heap |-> PositionCopy(moved, t.cursor),
                  t |-> [turned EXCEPT !.points = Append(@, Len(moved) + 1),
                                       !.rangeazimuths =
                                           Append(@, <<range_in_feet, adjusted>>)],
                  outcome |-> "ok"]
            ELSE [heap |-> moved, t |-> turned, outcome |-> "ok"]

HeapThenceChord(h, t, range_in_feet, delta_azimuth) ==
    IF t.last_azimuth = None
    THEN [heap |-> h, t |-> t, outcome |-> "ParseError"]
    ELSE LET last == t.last_azimuth[1]
             after == HeapThenceTo(h, t, range_in_feet, last + (delta_azimuth \div 2))
         IN IF after.outcome # "ok"
            THEN after
            ELSE [after EXCEPT !.t.last_azimuth = <<last + delta_azimuth>>]

HeapStore(i, after) ==
    /\ heap' = after.heap
    /\ trav' = [trav EXCEPT ![i] = after.t]
    /\ HeapWithinBounds(heap', trav')

Traverse_thence_to(i, range_in_feet, azimuth) ==
    LET after == HeapThenceTo(heap, trav[i], range_in_feet, azimuth) IN
    /\ HeapStore(i, after)
    /\ hlast' = HLast("thence_to", i, <<>>, after.outcome, <<>>)
    /\ UNCHANGED <<vlast, tvars, fvars, pvars>>

Traverse_thence_chord(i, range_in_feet, delta_azimuth) ==
    LET after == HeapThenceChord(heap, trav[i], range_in_feet, delta_azimuth) IN
    /\ HeapStore(i, after)
    /\ hlast' = HLast("thence_chord", i, <<>>, after.outcome, <<>>)
    /\ UNCHANGED <<vlast, tvars, fvars, pvars>>

\* [p.copy() for p in self.points] + [closure]
HeapAsPolygonResult(h, t) ==
    LET pts == PointValues(h, t)
        closure == IF pts[1] = Last(pts) THEN <<>> ELSE pts[1]
    IN [k \in 1..Len(pts) |-> Fresh(pts[k])] \o <<Fresh(closure)>>

Traverse_as_polygon(i) ==
    /\ IF Len(trav[i].points) < 3
       THEN hlast' = HLast("as_polygon", i, <<>>, "ParseError", <<>>)
       ELSE hlast' = HLast("as_polygon", i, <<>>, "ok", HeapAsPolygonResult(heap, trav[i]))
    /\ UNCHANGED <<heap, trav, vlast, tvars, fvars, pvars>>

\* the range add() displaces the i-th point by, to the right and to the left
RightRange(azimuths, i, last, right_in_feet) ==
    IF i = 1 \/ i = last THEN right_in_feet
    ELSE LET d == AlphaDiff(azimuths, i - 1)
         IN IF d < 180 THEN MiterRadius(right_in_feet, d) ELSE right_in_feet

LeftRange(azimuths, i, last, left_in_feet) ==
    IF i = 1 \/ i = last THEN left_in_feet
    ELSE LET d == AlphaDiff(azimuths, i - 1)
         IN IF d < 180 THEN left_in_feet ELSE MiterRadius(left_in_feet, d)

\* the local displace(point, range_f, bearing) of as_centerline as an object:
\* the point itself for a zero range, else a displaced copy
CenterlineObject(o, range_f, value) ==
    IF range_f = 0 THEN [object |-> o, value |-> value] ELSE Fresh(value)

HeapAsCenterlineResult(h, t, right_in_feet, left_in_feet) ==
    LET pts == PointValues(h, t)
        n == Len(pts)
        azimuths == [k \in 1..Len(t.rangeazimuths) |-> t.rangeazimuths[k][2]]
        right == [k \in 1..n |->
                     CenterlineObject(t.points[k], RightRange(azimuths, k, n, right_in_feet),
                                      RightOffset(pts, azimuths, k, right_in_feet))]
        left_rev == [k \in 1..n |->
                        CenterlineObject(t.points[k], LeftRange(azimuths, k, n, left_in_feet),
                                         LeftOffset(pts, azimuths, k, left_in_feet))]
    IN right \o Reverse(left_rev)

Traverse_as_centerline(i, right_in_feet, left_in_feet) ==
    LET azimuths == [k \in 1..Len(trav[i].rangeazimuths) |-> trav[i].rangeazimuths[k][2]]
        done(outcome, result) ==
            hlast' = HLast("as_centerline", i, <<right_in_feet, left_in_feet>>,
                           outcome, result)
    IN
    /\ IF Len(trav[i].points) < 2
       THEN done("ParseError", <<>>)
       ELSE IF \E k \in 1..(Len(azimuths) - 1) : TooAcute(AlphaDiff(azimuths, k))
       THEN done("ParseError", <<>>)
       ELSE done("ok", HeapAsCenterlineResult(heap, trav[i], right_in_feet, left_in_feet))
    /\ UNCHANGED <<heap, trav, vlast, tvars, fvars, pvars>>

HeapIdle ==
    /\ heap = <<Origin, Origin>>
    /\ trav = [i \in Traverses |-> NewTraverse(i)]
    /\ hlast = HLast("init", 0, <<>>, "ok", <<>>)

\* Two Traverses made from the same Position, or from one each.
HeapInit ==
    /\ heap = <<Origin, Origin>>
    /\ \E o \in {1, 2} : trav = [i \in Traverses |-> NewTraverse(IF i = 1 THEN 1 ELSE o)]
    /\ hlast = HLast("init", 0, <<>>, "ok", <<>>)

LegAzimuths == {0, 90}

HeapNext ==
    \/ \E i \in Traverses : Traverse_begin(i)
    \/ \E i \in Traverses, azimuth \in LegAzimuths : Traverse_thence_to(i, 1, azimuth)
    \/ \E i \in Traverses : Traverse_thence_chord(i, 1, 90)
    \/ \E i \in Traverses : Traverse_as_polygon(i)
    \/ \E i \in Traverses, right_in_feet \in Offsets, left_in_feet \in Offsets :
          Traverse_as_centerline(i, right_in_feet, left_in_feet)

(***************************************************************************)
(* geofib.py: the arcleft and arcright items of _add_poly                  *)
(*                                                                         *)
(* The delta of an arc is a token, as for parse_angle.  The central angles *)
(* tried are whole degrees that halve to whole degrees, and a chord length *)
(* is taken to the whole foot above.                                       *)
(***************************************************************************)
MaxChords == 8

\* cogo.chord_from_arc: 2 r sin(theta / 2), a turn added to a negative
\* theta; sin(theta / 2) is the cosine of half of 180 - theta
ChordFromArc(r, delta) ==
    LET theta == IF delta < 0 THEN delta + 360 ELSE delta
    IN (2 * r * CosHalf[((180 - theta) % 360) + 1] + 999) \div 1000

\* float(delta) within 0 .. 175, or parse_angle(delta) for what float()
\* does not take, 100 added for a nine-character token that begins with 1
ArcDegrees(delta) ==
    IF IsFloat(delta)
    THEN IF IsNaN(delta) THEN PLast("ok", TRUE, 0)
         ELSE IF FloatSeconds(delta) < 0 \/ FloatSeconds(delta) > 175 * SecondsPerDegree
         THEN PLast("GeofibError", FALSE, 0)
         ELSE PLast("ok", FALSE, FloatSeconds(delta))
    ELSE IF Len(delta) = 9 /\ delta[1] = "1"
    THEN LET rest == ParseAngle(Tail(delta))
         IN IF rest.outcome # "ok" THEN rest
            ELSE PLast("ok", rest.nan, 100 * SecondsPerDegree + rest.value)
    ELSE ParseAngle(delta)

\* _approx_arc_by_chord: the Traverse the calls of thence_chord leave and the
\* calls made; an exception ends the recursion where it is.
RECURSIVE ApproxArcByChord(_, _, _)
ApproxArcByChord(run, radius, degrees) ==
    IF run.t.outcome # "ok" THEN run
    ELSE IF Abs(degrees) < 18
    THEN LET chordlength == ChordFromArc(radius, degrees)
         IN [t |-> ThenceChordRun(run.t, chordlength, degrees),
             calls |-> Append(run.calls, <<chordlength, degrees>>)]
    ELSE LET half_angle == degrees \div 2
         IN ApproxArcByChord(ApproxArcByChord(run, radius, half_angle),
                             radius, half_angle)

\* The last item read, with what it was given and the calls it made.
TLastArc(arcleft, radius, delta, outcome, calls) ==
    [op |-> "arc", args |-> <<arcleft, radius, delta>>, outcome |-> outcome,
     result |-> calls]

\* The bounds: an arc starts on the grid, from the tangent a leg has left if
\* there is one, and makes at most MaxChords calls.
ArcWithinBounds(run) ==
    /\ WithinBounds(Traverse)
    /\ last_azimuth # None => last_azimuth[1] \in Azimuths
    /\ Len(run.calls) <= MaxChords

arc(arcleft, radius, delta) ==
    LET parsed == ArcDegrees(delta)
        whole == parsed.value \div SecondsPerDegree
        degrees == IF arcleft THEN -whole ELSE whole
        run == ApproxArcByChord([t |-> Traverse, calls |-> <<>>], radius, degrees)
    IN
    /\ UNCHANGED <<basis_adjustment, fvars, pvars, gvars>>
    /\ IF parsed.outcome # "ok"
       THEN /\ tlast' = TLastArc(arcleft, radius, delta, parsed.outcome, <<>>)
            /\ UNCHANGED <<points, rangeazimuths, cursor, last_azimuth>>
       ELSE IF parsed.nan
       THEN \* no comparison with nan holds: the recursion never reaches a chord
            /\ tlast' = TLastArc(arcleft, radius, delta, "RecursionError", <<>>)
            /\ UNCHANGED <<points, rangeazimuths, cursor, last_azimuth>>
       ELSE /\ ArcWithinBounds(run)
            /\ Store(run.t)
            /\ tlast' = TLastArc(arcleft, radius, delta, run.t.outcome, run.calls)

Radii == {0, 1}

ArcDeltas == {<<"0">>, <<"1", "6">>, <<"1", "8">>, <<"3", "6">>,
              <<"1", "7", "6">>, <<"n", "a", "n">>,
              <<"3", "6", " ", "0", "0", " ", "0", "0">>,
              <<"1", "3", "6", " ", "0", "0", " ", "0", "0">>,
              <<"3", "6", " ", "0", "0">>}

ArcNext ==
    \/ begin
    \/ \E azimuth \in LegAzimuths : thence_to(1, azimuth)
    \/ \E arcleft \in BOOLEAN, radius \in Radii, delta \in ArcDeltas :
          arc(arcleft, radius, delta)

(***************************************************************************)
(* Specifications: one per component, the others idle.                     *)
(***************************************************************************)
InitTraverse == TraverseInit /\ FiberInit /\ ParseIdle /\ VincentyInit /\ HeapIdle

SpecTraverse == InitTraverse /\ [][TraverseNext]_vars

SpecCenterline == InitTraverse /\ [][CenterlineNext]_vars

InitFiber == TraverseInit /\ FiberInit /\ ParseIdle /\ VincentyInit /\ HeapIdle

SpecFiber == InitFiber /\ [][FiberNext]_vars

InitParse == TraverseInit /\ FiberInit /\ ParseInit /\ VincentyInit /\ HeapIdle

ParseNext == parse_angle

SpecParse == InitParse /\ [][ParseNext]_vars

InitAzimuth ==
    /\ TraverseInit /\ FiberInit /\ VincentyInit /\ HeapIdle
    /\ elem = <<>> /\ plast = NotParsed
    /\ AzimuthInit

AzimuthNext == parse_azimuth

SpecAzimuth == InitAzimuth /\ [][AzimuthNext]_vars

InitVincenty == TraverseInit /\ FiberInit /\ ParseIdle /\ VincentyInit /\ HeapIdle

SpecVincenty == InitVincenty /\ [][VincentyNext]_vars

InitHeap == TraverseInit /\ FiberInit /\ ParseIdle /\ VincentyInit /\ HeapInit

SpecHeap == InitHeap /\ [][HeapNext]_vars

SpecArc == InitTraverse /\ [][ArcNext]_vars


(***************************************************************************)
(* Properties of the Traverse (checked under SpecTraverse)                 *)
(***************************************************************************)
AsPolygonReturned == tlast.op = "as_polygon" /\ tlast.outcome = "ok"

Thenced(last) == last.op \in {"thence_to", "thence_chord"} /\ last.outcome = "ok"

\* C1: as_polygon on a traverse of at least 3 points returns the points in
\* order; nothing more when the last point equals the first, and else one
\* copy of the first point; every element returned is a Position.
C1_AsPolygonClosesOnce ==
    AsPolygonReturned =>
        /\ Len(points) >= 3
        /\ SubSeq(tlast.result, 1, Len(points)) = points
        /\ points[1] = Last(points) => tlast.result = points
        /\ points[1] # Last(points) => tlast.result = Append(points, points[1])
        /\ \A i \in 1..Len(tlast.result) : IsPosition(tlast.result[i])

\* C2: once begun, points has one element more than rangeazimuths, and every
\* successful thence_to or thence_chord appends one Position and one
\* (range, azimuth) record and leaves the earlier elements as they were.
C2_OneMorePoint ==
    /\ [](points # <<>> => Len(points) = Len(rangeazimuths) + 1)
    /\ [][(points # <<>> /\ Thenced(tlast')) =>
            /\ Len(points') = Len(points) + 1
            /\ IsPosition(Last(points'))
            /\ SubSeq(points', 1, Len(points)) = points
            /\ Len(rangeazimuths') = Len(rangeazimuths) + 1
            /\ Len(Last(rangeazimuths')) = 2
            /\ SubSeq(rangeazimuths', 1, Len(rangeazimuths)) = rangeazimuths]_vars

C2_Witness ==
    /\ Thenced(tlast)
    /\ Len(points) = 3
    /\ Len(rangeazimuths) = 2

\* C3: thence_chord(range, delta) with tracked tangent azimuth L displaces
\* the cursor along L + delta/2, records that azimuth on the edge if begun,
\* and leaves L + delta as the tracked azimuth, whatever the basis adjustment.
C3_ChordBisectsTangents ==
    [][\A r \in Ranges, delta \in Deltas :
          (thence_chord(r, delta) /\ tlast'.outcome = "ok") =>
              LET L == last_azimuth[1] IN
              /\ cursor' = Displace(cursor, r, L + (delta \div 2))
              /\ points # <<>> => Last(rangeazimuths') = <<r, L + (delta \div 2)>>
              /\ last_azimuth' = <<L + delta>>]_vars

\* C14: begin on a begun traverse, thence_chord before any thence_to,
\* range_bearing_to_close and as_polygon with fewer than 3 points and
\* as_centerline with fewer than 2 points raise ParseError and leave points,
\* rangeazimuths, the cursor and the tracked azimuth as they were.
C14_SequenceErrorsChangeNothing ==
    [][(\/ tlast'.op = "begin" /\ points # <<>>
        \/ tlast'.op = "thence_chord" /\ last_azimuth = None
        \/ tlast'.op \in {"range_bearing_to_close", "as_polygon"} /\ Len(points) < 3
        \/ tlast'.op = "as_centerline" /\ Len(points) < 2)
       => /\ tlast'.outcome = "ParseError"
          /\ UNCHANGED <<points, rangeazimuths, cursor, last_azimuth>>]_vars

C14_Witness ==
    /\ tlast.op = "begin"
    /\ tlast.outcome = "ParseError"
    /\ Len(points) = 2
    /\ cursor = Last(points)

\* C15: a thence_to before begin leaves points and rangeazimuths empty and
\* moves the cursor by its leg, and a begin that follows records one point,
\* the cursor as it is then.
C15_LegsBeforeBegin ==
    /\ [](points = <<>> => rangeazimuths = <<>>)
    /\ [][\A r \in Ranges, azimuth \in Azimuths :
             (points = <<>> /\ thence_to(r, azimuth) /\ tlast'.outcome = "ok") =>
                 /\ points' = <<>>
                 /\ rangeazimuths' = <<>>
                 /\ cursor' = Displace(cursor, r, azimuth + basis_adjustment)
                 /\ last_azimuth' = <<azimuth + basis_adjustment>>]_vars
    /\ [][(points = <<>> /\ tlast'.op = "begin") =>
             /\ tlast'.outcome = "ok"
             /\ points' = <<cursor>>
             /\ UNCHANGED <<rangeazimuths, cursor, last_azimuth>>]_vars

C15_Witness ==
    /\ tlast.op = "begin"
    /\ tlast.outcome = "ok"
    /\ points = <<cursor>>
    /\ cursor = <<1, -1>>
    /\ rangeazimuths = <<>>

(***************************************************************************)
(* Properties of as_centerline (checked under SpecCenterline)              *)
(***************************************************************************)
\* the turns at the interior vertices, (azimuth_out - azimuth_in) mod 360
Turns == {(rangeazimuths[k + 1][2] - rangeazimuths[k][2]) % 360 :
             k \in 1..(Len(rangeazimuths) - 1)}

C17_RightThenLeftReversed ==
    (tlast.op = "as_centerline" /\ tlast.outcome = "ok") =>
        LET n == Len(points)
            right_in_feet == tlast.args[1]
            left_in_feet == tlast.args[2]
            azimuths == [k \in 1..Len(rangeazimuths) |-> rangeazimuths[k][2]]
            ring == tlast.result
            Moved(p, feet, azimuth) == IF feet = 0 THEN p ELSE Displace(p, feet, azimuth)
        IN /\ n >= 2
           /\ Len(ring) = 2 * n
           /\ \A i \in 1..(2 * n) : IsPosition(ring[i])
           /\ \A i \in 1..n : ring[i] = RightOffset(points, azimuths, i, right_in_feet)
           /\ \A j \in 0..(n - 1) :
                  ring[n + 1 + j] = LeftOffset(points, azimuths, n - j, left_in_feet)
           /\ ring[1] = Moved(points[1], right_in_feet, azimuths[1] + 90)
           /\ ring[n] = Moved(points[n], right_in_feet, azimuths[n - 1] + 90)
           /\ ring[n + 1] = Moved(points[n], left_in_feet, azimuths[n - 1] - 90)
           /\ ring[2 * n] = Moved(points[1], left_in_feet, azimuths[1] - 90)

C17_Witness ==
    /\ tlast.op = "as_centerline"
    /\ tlast.outcome = "ok"
    /\ Len(points) = 3
    /\ Len(tlast.result) = 6
    /\ Turns = {90}
    /\ tlast.args = <<1, 1>>
    /\ tlast.result[1] # points[1]
    /\ tlast.result[6] # points[1]
    /\ tlast.result[3] # tlast.result[4]

(***************************************************************************)
(* Properties of the vault tree (checked under SpecFiber)                  *)
(***************************************************************************)
Alone(s) == \A i, j \in 1..Len(s) : i # j => s[i] # s[j]

\* A vault list that grows the tree: distinct names, all of them new except
\* the first, which is new only on an empty FiberManager.
GrowsTree(vaultlist) ==
    /\ vaultlist # <<>>
    /\ Alone(vaultlist)
    /\ name_to_vault # {} => vaultlist[1] \in name_to_vault
    /\ \A i \in 2..Len(vaultlist) : vaultlist[i] \notin name_to_vault

\* C4 as stated: after successful set_alignment calls that created a vault,
\* exactly one vault has no parent.
C4_OneParentlessAlways ==
    (flast.op = "set_alignment" /\ flast.outcome = "ok" /\ phase = "align"
        /\ name_to_vault # {})
    => Cardinality(Parentless) = 1

\* C4 amended: a successful set_alignment call that grows the tree, made on
\* an empty FiberManager or on one with exactly one parentless vault, leaves
\* exactly one vault parentless.
C4_GrowingKeepsOneParentless ==
    [][(/\ flast'.op = "set_alignment"
        /\ flast'.outcome = "ok"
        /\ GrowsTree(flast'.args[2])
        /\ name_to_vault = {} \/ Cardinality(Parentless) = 1)
       => Cardinality(Parentless') = 1]_vars

C4_Witness ==
    /\ flast.op = "set_alignment"
    /\ flast.outcome = "ok"
    /\ name_to_vault = VaultNames
    /\ Cardinality(Parentless) = 1
    /\ \E v \in VaultNames : Cardinality(name_to_child[v]) = 2

HeadCarriesAll ==
    \A head \in Parentless : \A v \in name_to_vault :
        trunk_carries[v] \subseteq trunk_carries[head]

\* C5 as stated: whenever exactly one vault is parentless, its trunk_carries
\* contains every vault's trunk_carries, in any interleaving of the calls.
C5_HeadCarriesAllAnyOrder ==
    (Running /\ Cardinality(Parentless) = 1) => HeadCarriesAll

\* C5 amended: the same, when every set_alignment call came before every
\* add_fiber_drop call.
C5_HeadCarriesAllAlignedFirst ==
    (Running /\ phase # "mixed" /\ Cardinality(Parentless) = 1) => HeadCarriesAll

C5_Witness ==
    /\ Running
    /\ phase = "drop"
    /\ Cardinality(Parentless) = 1
    /\ \E v \in name_to_vault : parent[v] # NoVault /\ parent[parent[v]] # NoVault
                                /\ trunk_carries[v] # {}

\* The parent chain from v, v first, on a chain that ends.
RECURSIVE Chain(_)
Chain(v) == IF v = NoVault THEN <<>> ELSE <<v>> \o Chain(parent[v])

\* The vaults of the chain from v that lie strictly below the first vault
\* of that chain that is also on the chain from w.
BelowNearestCommon(v, w) ==
    LET chain == Chain(v)
        shared == {i \in 1..Len(chain) : chain[i] \in Range(Chain(w))}
        nearest == CHOOSE i \in shared : \A j \in shared : i <= j
    IN {chain[i] : i \in 1..(nearest - 1)}

\* C6: an add_fiber_drop(d, alignment, bb, splice) that returns adds d to the
\* duct_carries of exactly the vaults on the chains from bb and from splice
\* strictly below their nearest common ancestor.
C6_DuctMarksBelowCommon ==
    [][(flast'.op = "add_fiber_drop" /\ flast'.outcome = "ok") =>
          LET d == flast'.args[1]
              bb == flast'.args[3]
              splice == flast'.args[4]
          IN \A v \in VaultNames :
                d \in duct_carries'[v] <=>
                    \/ d \in duct_carries[v]
                    \/ v \in BelowNearestCommon(bb, splice)
                    \/ v \in BelowNearestCommon(splice, bb)]_vars

C6_Witness ==
    /\ flast.op = "add_fiber_drop"
    /\ flast.outcome = "ok"
    /\ \E bb, sv \in name_to_vault :
          /\ bb # sv
          /\ parent[bb] # NoVault /\ parent[bb] = parent[sv]
          /\ parent[parent[bb]] = NoVault
          /\ splices[sv] # {}
          /\ duct_carries[bb] # {} /\ duct_carries[sv] # {}
          /\ duct_carries[parent[bb]] = {}

\* C7: add_fiber_drop between two vaults without a common ancestor raises
\* GeofibDesignError.
C7_DisconnectedIsDesignError ==
    flast.op = "add_fiber_drop" =>
        LET bb == flast.args[3]
            splice == flast.args[4]
        IN (/\ flast.args[1] \in Demarcs
            /\ bb \in name_to_vault /\ splice \in name_to_vault
            /\ ReachesRoot(bb, {}) /\ ReachesRoot(splice, {})
            /\ Range(Chain(bb)) \cap Range(Chain(splice)) = {})
           => flast.outcome = "GeofibDesignError"

\* C8: get_head_end returns the parentless vault when there is exactly one,
\* and raises GeofibDesignError when there are several or none.
C8_HeadEndOrDesignError ==
    flast.op = "get_head_end" =>
        IF Cardinality(Parentless) = 1
        THEN flast.outcome = "ok" /\ flast.result = <<CHOOSE v \in Parentless : TRUE>>
        ELSE flast.outcome = "GeofibDesignError"

\* C9: a non-empty drop alignment is appended after the demarc in the given
\* order when its first coordinate is strictly closer to the demarc than its
\* last, and reversed when its last coordinate is strictly closer.
C9_CloserEndFirst ==
    (flast.op = "add_fiber_drop" /\ flast.outcome = "ok" /\ flast.args[2] # <<>>) =>
        LET alignment == flast.args[2]
            first == RangeInFeet(DemarcCoord(flast.args[1]), alignment[1])
            last == RangeInFeet(DemarcCoord(flast.args[1]), Last(alignment))
            appended == SubSeq(flast.result, 2, 1 + Len(alignment))
            given == [i \in 1..Len(alignment) |-> XYZ(alignment[i])]
        IN /\ first < last => appended = given
           /\ last < first => appended = Reverse(given)

\* C18: a set_alignment call that would give a parent to a vault that has one
\* raises GeofibDesignError and leaves that vault's parent, path_to_parent
\* and microducts and the would-be parent's children as they were.  (The
\* vault is the first of the list to have a parent, behind names that have
\* coordinates and do not repeat.)
C18_ParentSetOnce ==
    [][flast'.op = "set_alignment" =>
          LET vaultlist == flast'.args[2] IN
          \A i \in 2..Len(vaultlist) :
              (/\ vaultlist[i] \in name_to_vault
               /\ parent[vaultlist[i]] # NoVault
               /\ \A j \in 1..(i - 1) :
                     /\ vaultlist[j] \in VaultNames
                     /\ vaultlist[j] \notin name_to_vault \/ parent[vaultlist[j]] = NoVault \/ j = 1
                     /\ \A k \in 1..i : k # j => vaultlist[k] # vaultlist[j])
              => /\ flast'.outcome = "GeofibDesignError"
                 /\ parent'[vaultlist[i]] = parent[vaultlist[i]]
                 /\ path_to_parent'[vaultlist[i]] = path_to_parent[vaultlist[i]]
                 /\ microducts'[vaultlist[i]] = microducts[vaultlist[i]]
                 /\ name_to_child'[vaultlist[i - 1]] = name_to_child[vaultlist[i - 1]]]_vars

C18_Witness ==
    /\ flast.op = "set_alignment"
    /\ flast.outcome = "GeofibDesignError"
    /\ flast.args[2] = <<"C", "B">>
    /\ parent["B"] = "A"
    /\ name_to_child["C"] = {}
    /\ "C" \in name_to_vault

\* C19: after a successful set_alignment call, B's parent is A exactly when
\* B is among A's children, and the call has made every vault of its list
\* the child of the one before it and has given the first no parent.
C19_LinksThreaded ==
    [][(flast'.op = "set_alignment" /\ flast'.outcome = "ok") =>
          LET vaultlist == flast'.args[2] IN
          /\ \A a \in name_to_vault', b \in name_to_vault' :
                parent'[b] = a <=> b \in name_to_child'[a]
          /\ \A i \in 2..Len(vaultlist) : parent'[vaultlist[i]] = vaultlist[i - 1]
          /\ vaultlist # <<>> => parent'[vaultlist[1]] = parent[vaultlist[1]]]_vars

\* The vaults of the chain from v, v first, strictly below the first vault
\* of that chain that is also on the chain from w.
BelowNearestCommonInOrder(v, w) ==
    LET chain == Chain(v)
        shared == {i \in 1..Len(chain) : chain[i] \in Range(Chain(w))}
        nearest == CHOOSE i \in shared : \A j \in shared : i <= j
    IN SubSeq(chain, 1, nearest - 1)

RECURSIVE PathsOf(_)
PathsOf(vaults) ==
    IF vaults = <<>> THEN <<>> ELSE path_to_parent[Head(vaults)] \o PathsOf(Tail(vaults))

\* C20: add_fiber_drop returns the demarc coordinate, the drop alignment in
\* one of its two orientations, the path_to_parent of the vaults from bb up
\* to the nearest common ancestor, bb first, and then the path_to_parent
\* coordinates of the vaults from splice up to that ancestor, reversed as a
\* whole (every coordinate as (x, y, z)); a side that starts at the common
\* ancestor adds nothing.
C20_DropPathOrder ==
    (flast.op = "add_fiber_drop" /\ flast.outcome = "ok") =>
        LET demarc == <<DemarcCoord(flast.args[1])>>
            alignment == flast.args[2]
            bb == flast.args[3]
            splice == flast.args[4]
            up == PathsOf(BelowNearestCommonInOrder(bb, splice))
            down == Reverse(PathsOf(BelowNearestCommonInOrder(splice, bb)))
            Route(drop) == [i \in 1..Len(demarc \o drop \o up \o down) |->
                               XYZ((demarc \o drop \o up \o down)[i])]
        IN /\ flast.result \in {Route(alignment), Route(Reverse(alignment))}
           /\ bb \in Range(Chain(splice)) => up = <<>>
           /\ splice \in Range(Chain(bb)) => down = <<>>
           /\ bb = splice => Len(flast.result) = 1 + Len(alignment)

C20_Witness ==
    /\ flast.op = "add_fiber_drop"
    /\ flast.outcome = "ok"
    /\ flast.args[2] = <<<<5, 0, 7>>, <<45, 0, 7>>>>
    /\ parent["C"] = "A" /\ parent["B"] = "A"
    /\ flast.result = <<<<0, 0, 0>>, <<5, 0, 7>>, <<45, 0, 7>>, <<300, 0, 0>>,
                        <<100, 0, 0>>, <<100, 0, 0>>, <<200, 0, 0>>>>

(***************************************************************************)
(* Properties of parse_angle (checked under SpecParse)                     *)
(***************************************************************************)
\* C10: every value parse_angle returns lies in [0, 90] degrees.
C10_AngleWithinQuadrant ==
    plast.outcome = "ok" =>
        /\ ~plast.nan
        /\ 0 <= plast.value
        /\ plast.value <= 90 * SecondsPerDegree

\* The shape "DD MM SS": 8 characters, digits but for the two spaces.
IsDMS(e) ==
    /\ Len(e) = 8 /\ e[3] = " " /\ e[6] = " "
    /\ \A i \in {1, 2, 4, 5, 7, 8} : e[i] \in DigitChars

\* a DMS-shaped token but for a sign in front of one of its fields
IsSignedDMS(e) ==
    /\ Len(e) = 8 /\ e[3] = " " /\ e[6] = " "
    /\ \A i \in {1, 4, 7} : e[i] \in DigitChars \cup {"-"}
    /\ \A i \in {2, 5, 8} : e[i] \in DigitChars

Field(e, i) == IF e[i] = "-" THEN -DigitValue(e[i + 1])
               ELSE 10 * DigitValue(e[i]) + DigitValue(e[i + 1])

IsNumeric(e) == IsFloat(e) /\ ~IsNaN(e)

\* C11: parse_angle raises ParseError for a number outside [0, 90], for a
\* non-numeric token that is not 8 characters with a space third and sixth,
\* for minutes or seconds of 60 or more and for a negative component, and
\* returns a number within [0, 90] unchanged.
C11_FormatErrorsAreParseError ==
    plast.outcome # "none" =>
        /\ (IsNumeric(elem) /\ (FloatSeconds(elem) < 0
                                \/ FloatSeconds(elem) > 90 * SecondsPerDegree))
              => plast.outcome = "ParseError"
        /\ (IsNumeric(elem) /\ FloatSeconds(elem) >= 0
                            /\ FloatSeconds(elem) <= 90 * SecondsPerDegree)
              => plast = PLast("ok", FALSE, FloatSeconds(elem))
        /\ (~IsFloat(elem) /\ (Len(elem) # 8 \/ elem[3] # " " \/ elem[6] # " "))
              => plast.outcome = "ParseError"
        /\ (IsSignedDMS(elem) /\ (\/ Field(elem, 4) >= 60 \/ Field(elem, 7) >= 60
                                  \/ \E i \in {1, 4, 7} : Field(elem, i) < 0))
              => plast.outcome = "ParseError"

(***************************************************************************)
(* Properties of parse_azimuth (checked under SpecAzimuth)                 *)
(***************************************************************************)
\* the angle a token stands for: degrees + minutes/60 + seconds/3600 of a
\* "DD MM SS" token, and else the number written
AngleOf(token) ==
    IF IsDMS(token)
    THEN Field(token, 1) * SecondsPerDegree + Field(token, 4) * 60 + Field(token, 7)
    ELSE FloatSeconds(token)

\* C12: parse_azimuth returns angle for N/E, 360 - angle for N/W,
\* 180 - angle for S/E and 180 + angle for S/W, matching NS and EW in either
\* case and ignoring what follows the third element; a tuple of fewer than 3
\* elements, or with another NS or EW, raises ParseError.
C12_QuadrantTable ==
    alast.outcome # "none" =>
        IF \/ Len(tup) < 3
           \/ tup[1] \notin {"N", "S", "n", "s"}
           \/ tup[3] \notin {"E", "W", "e", "w"}
        THEN alast.outcome = "ParseError"
        ELSE alast.outcome = "ok" =>
               LET angle == AngleOf(tup[2]) IN
               /\ (tup[1] \in {"N", "n"} /\ tup[3] \in {"E", "e"}) => alast.value = angle
               /\ (tup[1] \in {"N", "n"} /\ tup[3] \in {"W", "w"})
                     => alast.value = 360 * SecondsPerDegree - angle
               /\ (tup[1] \in {"S", "s"} /\ tup[3] \in {"E", "e"})
                     => alast.value = 180 * SecondsPerDegree - angle
               /\ (tup[1] \in {"S", "s"} /\ tup[3] \in {"W", "w"})
                     => alast.value = 180 * SecondsPerDegree + angle

C12_Witness ==
    /\ alast.outcome = "ok"
    /\ tup[1] = "s" /\ tup[3] = "E"
    /\ tup[2] = <<"3", "0", " ", "1", "0", " ", "1", "0">>
    /\ Len(tup) = 5
    /\ alast.value = 149 * SecondsPerDegree + 49 * 60 + 50

\* C13: every azimuth parse_azimuth returns is in [0, 360).
C13_AzimuthNormalized ==
    alast.outcome = "ok" =>
        /\ ~alast.nan
        /\ 0 <= alast.value
        /\ alast.value < 360 * SecondsPerDegree


(***************************************************************************)
(* Properties of the geodesic solvers (checked under SpecVincenty)         *)
(***************************************************************************)
Inverse == vlast.op = "rangebearing_from_positions"

Direct == vlast.op = "position_from_rangebearing"

\* both differences of the last call's points below 1e-8 degree
BothBelowTolerance ==
    /\ Abs(vlast.args[3] - vlast.args[1]) < Tolerance
    /\ Abs(vlast.args[4] - vlast.args[2]) < Tolerance

\* C21: the forward and the reverse azimuth rangebearing_from_positions
\* returns for two points that are not the degenerate pair, and the reverse
\* azimuth position_from_rangebearing returns, are at least 0 and below 360,
\* also when one point is due north or due south of the other.
C21_AzimuthsBelowFullCircle ==
    /\ (Inverse /\ ~BothBelowTolerance) =>
          /\ vlast.result[2] >= 0 /\ vlast.result[2] < 360
          /\ vlast.result[3] >= 0 /\ vlast.result[3] < 360
    /\ (Direct /\ vlast.outcome = "ok") =>
          vlast.result[3] >= 0 /\ vlast.result[3] < 360

\* C22: rangebearing_from_positions returns exactly (0, 0, 0), without
\* entering the iteration, when both the latitudes and the longitudes differ
\* by less than 1e-8 degree, and enters the iteration for every other input.
C22_DegenerateReturnsZero ==
    Inverse =>
        IF BothBelowTolerance
        THEN vlast.result = <<0, 0, 0>> /\ ~vlast.entered
        ELSE vlast.entered

\* two different points below the tolerance, and the answer for them
C22_Witness ==
    /\ Inverse
    /\ BothBelowTolerance
    /\ <<vlast.args[1], vlast.args[2]>> # <<vlast.args[3], vlast.args[4]>>
    /\ vlast.result = <<0, 0, 0>>
    /\ ~vlast.entered

\* C27: position_from_rangebearing, and so Position.displace and
\* Traverse.thence_to, return normally for every azimuth and every distance
\* that is not negative, the distance 0 included.
C27_DirectSolverReturns == Direct => vlast.outcome = "ok"


(***************************************************************************)
(* Properties of the vault tree after alignments and failed calls          *)
(* (checked under SpecFiber)                                               *)
(***************************************************************************)
\* following parent links from any vault ends at a parentless vault
Acyclic == \A v \in name_to_vault : ReachesRoot(v, {})

\* C24: after any sequence of set_alignment calls that returned, vault lists
\* that repeat a name or reverse an earlier alignment included, the parent
\* relation is acyclic: the parent links from any vault lead to a parentless
\* vault, so the walks of set_splicepoint_for and ancestors end.  The
\* relation is empty at first, and no other call changes it: it is acyclic
\* after every such sequence if each call that returns keeps it acyclic.
C24_ParentRelationAcyclic ==
    [][(flast'.op = "set_alignment" /\ flast'.outcome = "ok" /\ Acyclic)
         => Acyclic']_vars

\* C29: an add_fiber_drop call that raises leaves every vault's splices,
\* trunk_carries and duct_carries as they were before the call.
C29_FailedDropChangesNothing ==
    [][(flast'.op = "add_fiber_drop" /\ flast'.outcome \notin {"ok", "hang"})
         => UNCHANGED <<splices, trunk_carries, duct_carries>>]_vars

\* C30: a set_alignment call that raises leaves the name-to-vault map and
\* every vault's parent, microducts and children as they were before the
\* call: no prefix of the vault list stays linked.
C30_FailedAlignmentChangesNothing ==
    [][(flast'.op = "set_alignment" /\ flast'.outcome # "ok")
         => UNCHANGED <<name_to_vault, parent, microducts, name_to_child>>]_vars


(***************************************************************************)
(* Properties of Position objects (checked under SpecHeap)                 *)
(***************************************************************************)
\* C25: thence_to and thence_chord on one Traverse leave unchanged the value
\* of the Position the caller passed to its constructor, and the cursor and
\* the points of every other Traverse, one made from the same Position
\* included.
C25_NoSharedPositions ==
    [][hlast'.op \in {"thence_to", "thence_chord"} =>
          LET i == hlast'.traverse IN
          /\ heap'[trav[i].initial_position] = heap[trav[i].initial_position]
          /\ \A j \in Traverses \ {i} :
                /\ heap'[trav'[j].cursor] = heap[trav[j].cursor]
                /\ PointValues(heap', trav'[j]) = PointValues(heap, trav[j])]_vars

\* C26: no Position that as_polygon or as_centerline returns is the same
\* object as an element of the Traverse's points, whatever the offsets, 0 to
\* the right or to the left included.
C26_ReturnedPositionsAreCopies ==
    (hlast.op \in {"as_polygon", "as_centerline"} /\ hlast.outcome = "ok") =>
        \A k \in 1..Len(hlast.result) :
            hlast.result[k].object \notin Range(trav[hlast.traverse].points)


(***************************************************************************)
(* Properties of the arc items (checked under SpecArc)                     *)
(***************************************************************************)
\* the total central angle D of an arc item, negative for arcleft
CentralAngle(args) ==
    LET whole == ArcDegrees(args[3]).value \div SecondsPerDegree
    IN IF args[1] THEN -whole ELSE whole

\* the item is an arc whose delta was read as a number that is not 0
Subdivides(last) ==
    /\ last.op = "arc"
    /\ ArcDegrees(last.args[3]).outcome = "ok"
    /\ ~ArcDegrees(last.args[3]).nan
    /\ CentralAngle(last.args) # 0

\* the least k >= 0 with |d| / 2^k < 18
Halvings(d) ==
    CHOOSE k \in 0..MaxChords :
        /\ Abs(d) < 18 * 2^k
        /\ \A j \in 0..(k - 1) : Abs(d) >= 18 * 2^j

\* C28: on a traverse that has a tangent azimuth, the subdivision of an arc
\* of central angle D, not 0, ends after exactly 2^k calls of thence_chord,
\* each with delta D / 2^k and the chord length chord_from_arc(radius,
\* D / 2^k), k the least with |D| / 2^k < 18, and leaves the tangent azimuth
\* changed by exactly D.
C28_ArcSubdivision ==
    [][(Subdivides(tlast') /\ last_azimuth # None) =>
          LET d == CentralAngle(tlast'.args)
              each == d \div 2^Halvings(d)
          IN /\ tlast'.outcome = "ok"
             /\ tlast'.result =
                    [n \in 1..2^Halvings(d) |->
                        <<ChordFromArc(tlast'.args[2], each), each>>]
             /\ last_azimuth' = <<last_azimuth[1] + d>>]_vars

====
